---- MODULE Spec2Model ----
(***************************************************************************)
(* Consistent Overhead Byte Stuffing, class COBS of src/COBS.h.            *)
(*                                                                         *)
(* The three static functions encode, decode and getEncodedBufferSize are  *)
(* pure: they are modelled as operators that run the loops of the source   *)
(* iteration by iteration, with the source's integer widths (uint16_t      *)
(* indices wrap modulo 2^16, uint8_t code modulo 2^8).  A byte buffer is   *)
(* memory in pages of PageSize bytes, read with At and written with Put.   *)
(* A destination buffer holds what has been written to it: its size is one *)
(* more than the highest index written, and a slot below that which was    *)
(* never written holds Unwritten.                                          *)
(*                                                                         *)
(* The state machine is a caller of the three functions: it calls one of   *)
(* them on arguments drawn from bounded sets and keeps the arguments and   *)
(* the results.                                                            *)
(***************************************************************************)
EXTENDS Integers, Sequences, FiniteSets

VARIABLES
    pc,            \* "start", "sized", "ready", "encoded", "decoded", "rawdecoded"
    header,        \* encode: sourceHeader  (sourceHeaderSize  = Size(header))
    body,          \* encode: sourceBody    (sourceBodySize    = Size(body))
    trailer,       \* encode: sourceTrailer (sourceTrailerSize = Size(trailer))
    sizes,         \* getEncodedBufferSize: <<headerSize, sourceSize, trailerSize>>
    bufferSize,    \* value returned by getEncodedBufferSize
    encodedLen,    \* value returned by encode
    encoded,       \* encode: destination after the call
    source,        \* decode: source
    size,          \* decode: size
    decodedLen,    \* value returned by decode
    decoded,       \* decode: destination after the call
    readEnd,       \* decode: read_index when decode returned
    maxRead        \* decode: highest index of source that was read, -1 if none

vars == <<pc, header, body, trailer, sizes, bufferSize, encodedLen, encoded,
          source, size, decodedLen, decoded, readEnd, maxRead>>

----------------------------------------------------------------------------
(* Integer widths and buffers *)

U16(x) == x % 65536

U8(x) == x % 256

\* Content of a destination slot that lies below a written one and was
\* itself never written.
Unwritten == -1

\* Bytes in a page of a buffer.  A buffer is a sequence of pages, each a
\* sequence of bytes; every page but the last holds PageSize bytes.
PageSize == 256

\* Number of bytes of the buffer: one more than its highest index.
Size(buf) ==
    IF buf = <<>> THEN 0
    ELSE (Len(buf) - 1) * PageSize + Len(buf[Len(buf)])

\* buf[i], for an index inside the buffer.
At(buf, i) == buf[(i \div PageSize) + 1][(i % PageSize) + 1]

\* buf[i] = v, for an index inside the buffer or right after it.
Store(buf, i, v) ==
    IF i < Size(buf)
    THEN [buf EXCEPT ![(i \div PageSize) + 1][(i % PageSize) + 1] = v]
    ELSE IF i % PageSize = 0 THEN Append(buf, <<v>>)
    ELSE [buf EXCEPT ![Len(buf)] = Append(@, v)]

\* destination[i] = v; the slots skipped below i are left Unwritten.
RECURSIVE Put(_, _, _)
Put(buf, i, v) ==
    IF i <= Size(buf) THEN Store(buf, i, v)
    ELSE Put(Store(buf, Size(buf), Unwritten), i, v)

\* The buffer that holds the bytes of seq, and the bytes of a buffer.
Buffer(seq) ==
    [p \in 1..((Len(seq) + PageSize - 1) \div PageSize) |->
        [k \in 1..(IF p * PageSize <= Len(seq) THEN PageSize
                   ELSE Len(seq) - (p - 1) * PageSize) |->
            seq[(p - 1) * PageSize + k]]]

Bytes(buf) == [i \in 1..Size(buf) |-> At(buf, i - 1)]

----------------------------------------------------------------------------
(* getEncodedBufferSize *)

\* Mutation of getEncodedBufferSize: the leading code byte is not counted.
getEncodedBufferSize_NoLeadingCode(headerSize, sourceSize, trailerSize) ==
    LET total == U16(headerSize + sourceSize + trailerSize)
    IN  U16(total + total \div 254)

\* Mutation of getEncodedBufferSize: one code byte per 255 bytes.
getEncodedBufferSize_Per255(headerSize, sourceSize, trailerSize) ==
    LET total == U16(headerSize + sourceSize + trailerSize)
    IN  U16(total + total \div 255 + 1)

\* uint16_t total = headerSize + sourceSize + trailerSize;
\* return total + total / 254 + 1;      (the result is a uint16_t)
getEncodedBufferSize(headerSize, sourceSize, trailerSize) ==
    LET total == U16(headerSize + sourceSize + trailerSize)
    IN  U16(total + total \div 254 + 1)

----------------------------------------------------------------------------
(* encode *)

\* Mutation of EncodeStart: no slot is kept for the first code byte.
EncodeStart_WriteAtZero ==
    [read_index |-> 0, write_index |-> 0, code_index |-> 0, code |-> 1,
     destination |-> <<>>]

\* The locals of encode before the first loop; nothing is written yet.
EncodeStart ==
    [read_index |-> 0, write_index |-> 1, code_index |-> 0, code |-> 1,
     destination |-> <<>>]

\* Mutation of EncodeZero: the run counter restarts at 0.
EncodeZero_CodeFromZero(st) ==
    [st EXCEPT !.destination = Put(st.destination, st.code_index, st.code),
               !.code        = 0,
               !.code_index  = st.write_index,
               !.write_index = U16(st.write_index + 1),
               !.read_index  = U16(st.read_index + 1)]

\* The branch taken on a zero source byte.
EncodeZero(st) ==
    [st EXCEPT !.destination = Put(st.destination, st.code_index, st.code),
               !.code        = 1,
               !.code_index  = st.write_index,
               !.write_index = U16(st.write_index + 1),
               !.read_index  = U16(st.read_index + 1)]

\* Mutation of EncodeData: the forced flush is missing.
EncodeData_NoFlush(st, b) ==
    [st EXCEPT !.destination = Put(st.destination, st.write_index, b),
               !.write_index = U16(st.write_index + 1),
               !.read_index  = U16(st.read_index + 1),
               !.code        = U8(st.code + 1)]

\* The branch taken on a non-zero source byte b.
EncodeData(st, b) ==
    LET d1 == Put(st.destination, st.write_index, b)
        w1 == U16(st.write_index + 1)
        r1 == U16(st.read_index + 1)
        c1 == U8(st.code + 1)
    IN  IF c1 = 255
        THEN [st EXCEPT !.destination = Put(d1, st.code_index, c1),
                        !.code        = 1,
                        !.code_index  = w1,
                        !.write_index = U16(w1 + 1),
                        !.read_index  = r1]
        ELSE [st EXCEPT !.destination = d1,
                        !.code        = c1,
                        !.write_index = w1,
                        !.read_index  = r1]

\* One iteration of a segment loop on the segment src.
EncodeByte(st, src) ==
    IF At(src, st.read_index) = 0
    THEN EncodeZero(st)
    ELSE EncodeData(st, At(src, st.read_index))

\* while(read_index < srcSize) { ... }.  The loop runs at most 2^16 - 1
\* times; EncodeLoop(st, src, srcSize, k) runs it until the condition fails
\* or 2^k iterations are done.
RECURSIVE EncodeLoop(_, _, _, _)
EncodeLoop(st, src, srcSize, k) ==
    IF ~(st.read_index < srcSize) THEN st
    ELSE IF k = 0 THEN EncodeByte(st, src)
    ELSE EncodeLoop(EncodeLoop(st, src, srcSize, k - 1), src, srcSize, k - 1)

EncodeSegment(st, src, srcSize) == EncodeLoop(st, src, srcSize, 16)

\* Mutation of NextSegment: the run counter restarts with the segment.
NextSegment_ResetCode(st) == [st EXCEPT !.read_index = 0, !.code = 1]

\* read_index = 0; between two segment loops.
NextSegment(st) == [st EXCEPT !.read_index = 0]

\* uint16_t encode(sourceHeader, sourceHeaderSize, sourceBody, sourceBodySize,
\*                 sourceTrailer, sourceTrailerSize, destination)
\* Yields the returned length and the destination.
encode(sourceHeader, sourceHeaderSize, sourceBody, sourceBodySize, sourceTrailer, sourceTrailerSize) ==
    LET s1 == EncodeSegment(EncodeStart, sourceHeader, sourceHeaderSize)
        s2 == EncodeSegment(NextSegment(s1), sourceBody, sourceBodySize)
        s3 == EncodeSegment(NextSegment(s2), sourceTrailer, sourceTrailerSize)
    IN  [length      |-> s3.write_index,
         destination |-> Put(s3.destination, s3.code_index, s3.code)]

----------------------------------------------------------------------------
(* decode *)

\* The locals of decode before the loop.  code and i are declared without
\* a value and are assigned before they are read (code at the top of each
\* iteration, i by the for statement), so the value they start with never
\* shows.  returned is set by the return inside the loop; max_read records
\* the highest source index read so far.
DecodeStart ==
    [read_index |-> 0, write_index |-> 0, code |-> 0, i |-> 0,
     destination |-> <<>>, returned |-> FALSE, max_read |-> -1]

\* source[i] as decode reads it.  decode makes no read at or beyond the end
\* of the buffer it is given (DecodeReadsInBounds); the last branch gives a
\* value to such a read where a changed decode makes one.
Fetch(src, i) == IF i < Size(src) THEN At(src, i) ELSE 0

Max(a, b) == IF a > b THEN a ELSE b

\* Mutation of Overrun: the comparison is >= instead of >.
Overrun_GreaterEqual(read_index, code, srcSize) ==
    read_index + code >= srcSize /\ code # 1

\* Mutation of Overrun: the run may end one byte after the buffer.
Overrun_OffByOne(read_index, code, srcSize) ==
    read_index + code > srcSize + 1 /\ code # 1

\* Mutation of Overrun: the check is missing.
Overrun_Never(read_index, code, srcSize) == FALSE

\* read_index + code > size && code != 1     (computed in int: no wrap)
Overrun(read_index, code, srcSize) ==
    read_index + code > srcSize /\ code # 1

\* destination[write_index++] = source[read_index++]; and then i++
DecodeCopyByte(st, src) ==
    [st EXCEPT !.destination = Put(st.destination, st.write_index,
                                   Fetch(src, st.read_index)),
               !.max_read    = Max(st.max_read, st.read_index),
               !.write_index = U16(st.write_index + 1),
               !.read_index  = U16(st.read_index + 1),
               !.i           = U8(st.i + 1)]

\* for(...; i < code; i++) { ... }.  The loop runs at most 254 times;
\* DecodeCopyLoop(st, src, k) runs it until the condition fails or 2^k
\* iterations are done.
RECURSIVE DecodeCopyLoop(_, _, _)
DecodeCopyLoop(st, src, k) ==
    IF ~(st.i < st.code) THEN st
    ELSE IF k = 0 THEN DecodeCopyByte(st, src)
    ELSE DecodeCopyLoop(DecodeCopyLoop(st, src, k - 1), src, k - 1)

\* for(i = 1; i < code; i++) { ... }
DecodeCopy(st, src) == DecodeCopyLoop([st EXCEPT !.i = 1], src, 8)

\* Mutation of DecodeZero: the zero is inserted after the last run too.
DecodeZero_AfterLastRun(st, srcSize) ==
    IF st.code # 255
    THEN [st EXCEPT !.destination = Put(st.destination, st.write_index, 0),
                    !.write_index = U16(st.write_index + 1)]
    ELSE st

\* if(code != 0xFF && read_index != size) destination[write_index++] = '\0';
DecodeZero(st, srcSize) ==
    IF st.code # 255 /\ st.read_index # srcSize
    THEN [st EXCEPT !.destination = Put(st.destination, st.write_index, 0),
                    !.write_index = U16(st.write_index + 1)]
    ELSE st

\* code = source[read_index];
DecodeCode(st, src) ==
    [st EXCEPT !.code     = Fetch(src, st.read_index),
               !.max_read = Max(st.max_read, st.read_index)]

\* One iteration of the while loop of decode: one code byte and its run.
DecodeRun(st, src, srcSize) ==
    LET s1 == DecodeCode(st, src)
        s2 == [s1 EXCEPT !.read_index = U16(s1.read_index + 1)]
    IN  IF Overrun(s1.read_index, s1.code, srcSize)
        THEN [s1 EXCEPT !.returned = TRUE]
        ELSE DecodeZero(DecodeCopy(s2, src), srcSize)

\* while(read_index < size) { ... }, left early by the return inside it.
RECURSIVE DecodeLoop(_, _, _, _)
DecodeLoop(st, src, srcSize, k) ==
    IF st.returned \/ ~(st.read_index < srcSize) THEN st
    ELSE IF k = 0 THEN DecodeRun(st, src, srcSize)
    ELSE DecodeLoop(DecodeLoop(st, src, srcSize, k - 1), src, srcSize, k - 1)

\* uint16_t decode(source, size, destination)
\* Yields the returned length, the destination, and the final read_index
\* and max_read.
decode(src, srcSize) ==
    LET s == DecodeLoop(DecodeStart, src, srcSize, 16)
    IN  [length      |-> IF s.returned THEN 0 ELSE s.write_index,
         destination |-> s.destination,
         read_index  |-> s.read_index,
         max_read    |-> s.max_read]

----------------------------------------------------------------------------
(* Arguments of the calls *)

\* Most pieces an encode input is put together from.
MaxPieces == 2

\* Longest buffer of arbitrary bytes handed to decode.
MaxRawLen == 3

\* n non-zero bytes, each different from its neighbours.
Run(n) == [i \in 1..n |-> (i % 255) + 1]

\* n zero bytes.
Zeros(n) == [i \in 1..n |-> 0]

\* A zero byte, a non-zero byte, and a run one byte short of a forced flush.
Pieces == {<<0>>, <<255>>, Run(253)}

PieceSeqs == UNION {[1..k -> Pieces] : k \in 0..MaxPieces}

RECURSIVE Flat(_, _, _)
Flat(ps, from, to) ==
    IF from > to THEN <<>> ELSE ps[from] \o Flat(ps, from + 1, to)

\* Every split of every piece sequence into header, body and trailer.
SplitInputs ==
    UNION {{<<Flat(ps, 1, i), Flat(ps, i + 1, j), Flat(ps, j + 1, Len(ps))>> :
               i \in 0..j} : <<ps, j>> \in {<<q, n>> \in PieceSeqs \X (0..MaxPieces) : n <= Len(q)}}

\* The inputs the specification names, and sources with segment boundaries
\* inside a run, at a forced flush and next to a zero byte.
NamedInputs ==
    {<<<<1, 2>>, <<0, 3>>, <<4>>>>, <<<<1, 2, 0, 3, 4>>, <<>>, <<>>>>,
     <<Run(508), <<>>, <<>>>>, <<Run(255), <<>>, <<>>>>,
     <<Run(254), <<255>>, <<>>>>, <<Run(253), <<255>>, <<255>>>>,
     <<Run(253), <<255, 0>>, Run(3)>>, <<Run(254), <<0>>, Run(254)>>,
     <<<<0>>, <<0>>, <<0>>>>, <<<<>>, <<0, 0>>, Run(254)>>}

\* Inputs at the end of the 16-bit range: the longest source without a zero
\* whose encoding has at most 65535 bytes, the source one byte longer, the
\* longest zero-only source whose encoding has at most 65535 bytes, the
\* source one byte longer, and a source of 65535 bytes in two segments.
LongInputs ==
    {<<Run(65277), <<>>, <<>>>>, <<Run(65278), <<>>, <<>>>>,
     <<Zeros(65534), <<>>, <<>>>>, <<Zeros(65535), <<>>, <<>>>>,
     <<Run(65024), Run(511), <<>>>>}

EncodeInputs == SplitInputs \cup NamedInputs

RawBytes == {0, 1, 2, 3, 5, 255}

\* Buffers holding a full group of code 0xFF.
LongRaw ==
    {<<255>> \o Run(253), <<255>> \o Run(254), <<255>> \o Run(254) \o <<1>>,
     <<2, 9, 255>> \o Run(254) \o <<3, 1>>, <<1, 1, 255>> \o Run(254) \o <<0, 2, 7>>}

\* decode calls: every short buffer with every size up to its length, and
\* the long ones with their length and one byte less.
RawCalls ==
    {<<buf, n>> \in (UNION {[1..m -> RawBytes] : m \in 0..MaxRawLen})
                        \X (0..MaxRawLen) : n <= Len(buf)}
        \cup UNION {{<<buf, Len(buf) - 1>>, <<buf, Len(buf)>>} : buf \in LongRaw}

\* Sizes at the ends of the ranges of getEncodedBufferSize.
Sizes == {0, 1, 253, 254, 255, 508, 32768, 65277, 65278, 65535}

----------------------------------------------------------------------------
(* The caller *)

Init ==
    /\ pc = "start"
    /\ header = <<>> /\ body = <<>> /\ trailer = <<>>
    /\ sizes = <<0, 0, 0>>
    /\ bufferSize = 0
    /\ encodedLen = 0 /\ encoded = <<>>
    /\ source = <<>> /\ size = 0
    /\ decodedLen = 0 /\ decoded = <<>>
    /\ readEnd = 0 /\ maxRead = -1

\* getEncodedBufferSize(headerSize, sourceSize, trailerSize)
CallGetEncodedBufferSize(headerSize, sourceSize, trailerSize) ==
    /\ pc = "start"
    /\ pc' = "sized"
    /\ sizes' = <<headerSize, sourceSize, trailerSize>>
    /\ bufferSize' = getEncodedBufferSize(headerSize, sourceSize, trailerSize)
    /\ UNCHANGED <<header, body, trailer, encodedLen, encoded, source, size,
                   decodedLen, decoded, readEnd, maxRead>>

\* The caller takes the segments h, b and t to encode and sizes the
\* destination: getEncodedBufferSize(Len(h), Len(b), Len(t)).
SizeDestination(h, b, t) ==
    /\ pc = "start"
    /\ pc' = "ready"
    /\ header' = Buffer(h) /\ body' = Buffer(b) /\ trailer' = Buffer(t)
    /\ sizes' = <<Len(h), Len(b), Len(t)>>
    /\ bufferSize' = getEncodedBufferSize(Len(h), Len(b), Len(t))
    /\ UNCHANGED <<encodedLen, encoded, source, size, decodedLen, decoded,
                   readEnd, maxRead>>

\* encode(header, Size(header), body, Size(body), trailer, Size(trailer),
\*        destination)
CallEncode ==
    /\ pc = "ready"
    /\ pc' = "encoded"
    /\ LET r == encode(header, Size(header), body, Size(body),
                       trailer, Size(trailer))
       IN  /\ encodedLen' = r.length
           /\ encoded' = r.destination
    /\ UNCHANGED <<header, body, trailer, sizes, bufferSize, source, size,
                   decodedLen, decoded, readEnd, maxRead>>

\* decode(destination of encode, encodedLen, destination)
CallDecodeEncoded ==
    /\ pc = "encoded"
    /\ pc' = "decoded"
    /\ source' = encoded /\ size' = encodedLen
    /\ LET r == decode(encoded, encodedLen)
       IN  /\ decodedLen' = r.length
           /\ decoded' = r.destination
           /\ readEnd' = r.read_index
           /\ maxRead' = r.max_read
    /\ UNCHANGED <<header, body, trailer, sizes, bufferSize, encodedLen, encoded>>

\* decode(buf, n, destination) on an arbitrary buffer of at least n bytes.
CallDecodeRaw(buf, n) ==
    /\ pc = "start"
    /\ pc' = "rawdecoded"
    /\ source' = Buffer(buf) /\ size' = n
    /\ LET r == decode(source', n)
       IN  /\ decodedLen' = r.length
           /\ decoded' = r.destination
           /\ readEnd' = r.read_index
           /\ maxRead' = r.max_read
    /\ UNCHANGED <<header, body, trailer, sizes, bufferSize, encodedLen, encoded>>

Next ==
    \/ \E h \in Sizes, b \in Sizes, t \in Sizes : CallGetEncodedBufferSize(h, b, t)
    \/ \E in \in EncodeInputs : SizeDestination(in[1], in[2], in[3])
    \/ \E call \in RawCalls : CallDecodeRaw(call[1], call[2])
    \/ \E in \in LongInputs : SizeDestination(in[1], in[2], in[3])
    \/ CallEncode
    \/ CallDecodeEncoded

Spec == Init /\ [][Next]_vars

----------------------------------------------------------------------------
(* Properties *)

\* The logical source message of the encode call: header, body, trailer.
MessageLen == Size(header) + Size(body) + Size(trailer)

MessageAt(i) ==
    IF i < Size(header) THEN At(header, i)
    ELSE IF i < Size(header) + Size(body) THEN At(body, i - Size(header))
    ELSE At(trailer, i - Size(header) - Size(body))

Message == [i \in 1..MessageLen |-> MessageAt(i - 1)]

MessageHasZero == \E i \in 0..(MessageLen - 1) : MessageAt(i) = 0

\* Every byte of the buffer is v.
AllBytes(buf, v) == \A i \in 0..(Size(buf) - 1) : At(buf, i) = v

\* The decode destination holds exactly the source message.
DecodedIsMessage ==
    /\ Size(decoded) = MessageLen
    /\ \A i \in 0..(MessageLen - 1) : At(decoded, i) = MessageAt(i)

\* The size formula over the integers, without a width.
SizeFormula(total) == total + total \div 254 + 1

Decoded == pc \in {"decoded", "rawdecoded"}

\* C1 as stated: for every source of at most 65535 bytes, in any split,
\* decoding the first encodedLen bytes of the encode destination returns
\* the length of the source and leaves exactly the source in the decode
\* destination.
C1_RoundTripUpTo65535 ==
    (pc = "decoded" /\ MessageLen <= 65535)
        => (decodedLen = MessageLen /\ DecodedIsMessage)

\* C1 amended: the round trip holds for every source whose worst-case
\* encoded size, len + floor(len / 254) + 1, is at most 65535.
C1_RoundTrip ==
    (pc = "decoded" /\ SizeFormula(MessageLen) <= 65535)
        => (decodedLen = MessageLen /\ DecodedIsMessage)

\* A round trip of a source with three non-empty segments, a zero byte and
\* a forced flush.
C1_Witness ==
    /\ pc = "decoded"
    /\ header # <<>> /\ body # <<>> /\ trailer # <<>>
    /\ MessageHasZero /\ MessageLen > 254
    /\ decodedLen = MessageLen /\ DecodedIsMessage

\* C2: after encode returns, every destination byte at an index in
\* [0, encodedLen) has a value in 0x01..0xFF; none is 0.
C2_NoZeroBytes ==
    pc = "encoded"
        => /\ encodedLen <= Size(encoded)
           /\ \A i \in 0..(encodedLen - 1) : At(encoded, i) \in 1..255

\* An encoding of a source with zero bytes and a forced flush.
C2_Witness ==
    /\ pc = "encoded"
    /\ MessageHasZero /\ encodedLen > 256
    /\ \A i \in 0..(encodedLen - 1) : At(encoded, i) # 0

\* C3 as stated: for every header, body and trailer the returned length and
\* every destination index written are at most getEncodedBufferSize of the
\* three lengths, and the returned length equals it when the source has no
\* zero byte.
C3_SizeBoundEverySource ==
    pc = "encoded"
        => /\ encodedLen <= bufferSize
           /\ Size(encoded) - 1 <= bufferSize
           /\ (~MessageHasZero => encodedLen = bufferSize)

\* C3 amended: the same, for the sources whose size
\* total + floor(total / 254) + 1 is at most 65535.
C3_SizeBound ==
    (pc = "encoded" /\ SizeFormula(MessageLen) <= 65535)
        => /\ encodedLen <= bufferSize
           /\ Size(encoded) - 1 <= bufferSize
           /\ (~MessageHasZero => encodedLen = bufferSize)

\* An encoding of 508 non-zero bytes that fills the buffer exactly, and one
\* with a zero byte that stays below the bound.
C3_Witness ==
    /\ pc = "encoded"
    /\ \/ (~MessageHasZero /\ MessageLen = 508 /\ encodedLen = 511
            /\ bufferSize = 511)
       \/ (MessageHasZero /\ MessageLen >= 254 /\ encodedLen < bufferSize)

SizesTotal == sizes[1] + sizes[2] + sizes[3]

\* C4 as stated: for all three sizes in 0..65535 the value returned by
\* getEncodedBufferSize is total + floor(total / 254) + 1 over the
\* integers, without wrap-around.
C4_NoOverflowEverySize ==
    pc \in {"sized", "ready"} => bufferSize = SizeFormula(SizesTotal)

\* C4 amended: the returned value is total + floor(total / 254) + 1
\* whenever that number is at most 65535.
C4_NoOverflow ==
    (pc \in {"sized", "ready"} /\ SizeFormula(SizesTotal) <= 65535)
        => bufferSize = SizeFormula(SizesTotal)

\* A call with three non-zero sizes whose total takes two code bytes more.
C4_Witness ==
    /\ pc = "sized"
    /\ sizes = <<253, 254, 1>>
    /\ bufferSize = 511

\* C5: encode of header, body and trailer returns the same length and
\* writes the same destination bytes as encode of their concatenation
\* passed as one segment (any of the three) with the other two empty.
C5_SegmentConcatenation ==
    (pc = "encoded" /\ MessageLen <= 65535 /\ (body # <<>> \/ trailer # <<>>))
        => \A single \in {Buffer(Message)} :
              /\ encode(single, MessageLen, <<>>, 0, <<>>, 0)
                   = [length |-> encodedLen, destination |-> encoded]
              /\ encode(<<>>, 0, single, MessageLen, <<>>, 0)
                   = [length |-> encodedLen, destination |-> encoded]
              /\ encode(<<>>, 0, <<>>, 0, single, MessageLen)
                   = [length |-> encodedLen, destination |-> encoded]

\* A segment boundary inside a run that goes on to a forced flush, and one
\* exactly at a forced flush.
C5_Witness ==
    /\ pc = "encoded"
    /\ ~MessageHasZero
    /\ \/ (Size(header) = 253 /\ Size(body) = 1 /\ Size(trailer) = 1)
       \/ (Size(header) = 254 /\ Size(body) = 1)
    /\ At(encoded, 0) = 255

\* The groups of a buffer, followed from index 0 without writing anything:
\* p is the index of the next code byte, out the number of bytes the groups
\* before p stand for, bad says that the code byte at p claims more bytes
\* than the n of the buffer.
GroupWalkStep(w, src, n) ==
    LET c   == At(src, w.p)
        len == IF c = 0 THEN 1 ELSE c
        p1  == w.p + len
    IN  IF w.p + c > n /\ c # 1
        THEN [w EXCEPT !.bad = TRUE]
        ELSE [p   |-> p1,
              out |-> w.out + (len - 1) + (IF c # 255 /\ p1 # n THEN 1 ELSE 0),
              bad |-> FALSE]

RECURSIVE GroupWalk(_, _, _, _)
GroupWalk(w, src, n, k) ==
    IF w.bad \/ ~(w.p < n) THEN w
    ELSE IF k = 0 THEN GroupWalkStep(w, src, n)
    ELSE GroupWalk(GroupWalk(w, src, n, k - 1), src, n, k - 1)

Groups == GroupWalk([p |-> 0, out |-> 0, bad |-> FALSE], source, size, 16)

\* C6: if a code byte at the read cursor claims more bytes than remain
\* (read cursor + code > size, code != 1), decode returns 0 at once, with
\* the read cursor still on that code byte; on every other input decode
\* runs to the end of the buffer and returns its write cursor.
C6_MalformedDecode ==
    Decoded
        => IF Groups.bad
           THEN decodedLen = 0 /\ readEnd = Groups.p
           ELSE /\ decodedLen = Groups.out
                /\ decodedLen = Size(decoded)
                /\ readEnd = size

\* decode([5, 1, 2], 3) returns 0, and a decode that fails at a later code
\* byte after it has written bytes.
C6_Witness ==
    /\ pc = "rawdecoded"
    /\ \/ (Bytes(source) = <<5, 1, 2>> /\ size = 3)
       \/ (Groups.bad /\ Groups.p > 0 /\ Size(decoded) > 0)
    /\ decodedLen = 0

\* C7: on every source and size, also when decode returns 0, every
\* destination index decode writes is below size and the returned length
\* is at most size.
C7_DecodeNeverExpands ==
    Decoded => (Size(decoded) <= size /\ decodedLen <= size)

\* A decode that returns 0 after it has written bytes, and one that fills
\* all but one byte of a destination of size bytes.
C7_Witness ==
    /\ pc = "rawdecoded"
    /\ \/ (decodedLen = 0 /\ Size(decoded) > 1)
       \/ (size > 2 /\ decodedLen = size - 1)

\* C10: every source index decode reads, for a code byte or inside the
\* copy loop, is below size, and read_index ends at most at size.
C10_DecodeReadsInBounds ==
    Decoded => (maxRead < size /\ readEnd <= size)

\* A decode that reads the last byte of its buffer inside the copy loop of
\* a group of code 0xFF.
C10_Witness ==
    /\ pc = "rawdecoded"
    /\ size = 255 /\ At(source, 0) = 255
    /\ maxRead = size - 1

\* The groups of the encode destination set against the source message:
\* p is the index of the next code byte, q the number of source bytes the
\* groups before p account for, ok says that every group so far is a code
\* byte N in 1..255 followed by the next N - 1 source bytes, none of them
\* zero, and that it ends for one of three reasons: N = 0xFF (254 bytes,
\* forced flush, nothing elided), the next source byte is a zero (elided),
\* or the source is exhausted and the group is the last one, with N < 0xFF.
TileStep(w) ==
    LET N    == At(encoded, w.p)
        p1   == w.p + N
        q1   == w.q + N - 1
        last == p1 = encodedLen
    IN  IF /\ N \in 1..255
           /\ p1 <= encodedLen
           /\ q1 <= MessageLen
           /\ \A j \in 1..(N - 1) :
                 /\ At(encoded, w.p + j) = MessageAt(w.q + j - 1)
                 /\ MessageAt(w.q + j - 1) # 0
           /\ IF last THEN q1 = MessageLen /\ N < 255
              ELSE IF N = 255 THEN TRUE
              ELSE q1 < MessageLen /\ MessageAt(q1) = 0
        THEN [p |-> p1, q |-> IF last \/ N = 255 THEN q1 ELSE q1 + 1, ok |-> TRUE]
        ELSE [w EXCEPT !.ok = FALSE]

RECURSIVE Tile(_, _)
Tile(w, k) ==
    IF ~w.ok \/ ~(w.p < encodedLen) THEN w
    ELSE IF k = 0 THEN TileStep(w)
    ELSE Tile(Tile(w, k - 1), k - 1)

Tiled ==
    LET w == Tile([p |-> 0, q |-> 0, ok |-> TRUE], 16)
    IN  w.ok /\ w.p = encodedLen /\ w.p > 0 /\ w.q = MessageLen

\* C8 as stated: for every source the output of encode is tiled exactly,
\* from index 0 to encodedLen, by groups of a code byte N in 1..255 and the
\* next N - 1 source bytes; 254 non-zero bytes make a group of code 0xFF
\* with no zero implied, a group with N < 0xFF that is not the last stands
\* for one elided zero, and every group ends at a source zero, at a forced
\* flush or at the end of the stream.
C8_WireStructureEverySource == pc = "encoded" => Tiled

\* C8 amended: the same, for the sources whose size
\* len + floor(len / 254) + 1 is at most 65535.
C8_WireStructure ==
    (pc = "encoded" /\ SizeFormula(MessageLen) <= 65535) => Tiled

\* 254 non-zero bytes, alone or followed by a zero: code 0xFF, the 254
\* bytes, and a group of code 1 for each of what follows.
C8_Witness ==
    /\ pc = "encoded"
    /\ MessageLen \in {254, 255}
    /\ \A i \in 0..253 : MessageAt(i) # 0
    /\ MessageLen = 255 => MessageAt(254) = 0
    /\ At(encoded, 0) = 255
    /\ \A i \in 255..(encodedLen - 1) : At(encoded, i) = 1
    /\ encodedLen = MessageLen + 2
    /\ Tiled

\* C9 as stated: for every k >= 0, encode of k zero bytes, in any split,
\* returns k + 1 with every output byte 1, and decode of k + 1 bytes all
\* equal to 1 returns k and writes k zero bytes.
C9_ZeroOnlyEveryK ==
    /\ (pc = "encoded" /\ ~(\E i \in 0..(MessageLen - 1) : MessageAt(i) # 0))
          => (encodedLen = MessageLen + 1 /\ Size(encoded) = encodedLen
                /\ AllBytes(encoded, 1))
    /\ (Decoded /\ size >= 1 /\ Size(source) = size /\ AllBytes(source, 1))
          => (decodedLen = size - 1 /\ Size(decoded) = size - 1
                /\ AllBytes(decoded, 0))

\* C9 amended: the same, for every k with k + 1 <= 65535.
C9_ZeroOnly ==
    /\ (pc = "encoded" /\ MessageLen + 1 <= 65535
           /\ ~(\E i \in 0..(MessageLen - 1) : MessageAt(i) # 0))
          => (encodedLen = MessageLen + 1 /\ Size(encoded) = encodedLen
                /\ AllBytes(encoded, 1))
    /\ (Decoded /\ size >= 1 /\ Size(source) = size /\ AllBytes(source, 1))
          => (decodedLen = size - 1 /\ Size(decoded) = size - 1
                /\ AllBytes(decoded, 0))

\* Two zero bytes in two segments, encoded to three bytes 1 and decoded
\* back.
C9_Witness ==
    /\ pc = "decoded"
    /\ Message = <<0, 0>> /\ Size(header) = 1
    /\ Bytes(encoded) = <<1, 1, 1>>
    /\ Bytes(decoded) = <<0, 0>> /\ decodedLen = 2

====
